---------------------------- MODULE Spec2Model ----------------------------
(***************************************************************************)
(* A model of src/app.py: the LINE attendance bot of a music classroom.    *)
(*                                                                         *)
(* Text is modelled as a sequence of characters, each character a          *)
(* one-element string.  A Chinese character of the source is written as    *)
(* its pinyin syllable and stands for one character:                       *)
(*    shang ke ri  = the three characters of the "class day" prefix        *)
(*    xuan ze xue sheng = "choose student",  tang shu = "lessons",         *)
(*    sou xun = "search",  qing jia = "leave" (absent),                    *)
(*    shang ke = "attended",  lian luo jiao shi = "contact classroom".     *)
(* Amounts and balances are integers counted in thousandths of a lesson,   *)
(* so that round(x, 2) is a real conversion (to a multiple of 10).         *)
(***************************************************************************)
EXTENDS Integers, Sequences, FiniteSets, TLC

VARIABLES
    now,              \* the clock read by time.time() and datetime.now()
    ticks,            \* how many times the clock has advanced (bounded)
    PENDING,          \* uid -> [stage, weekday, ts]           (app.py:62)
    TEACHERS_CACHE,   \* [ts, ids]                             (app.py:84)
    ws_teachers,      \* the remote "teachers" sheet: rows of cells
    ws_students,      \* the remote "students" sheet: rows [A, B]
    ws_log,           \* the remote "attendance_log" sheet: rows of 6 cells
    delivered,        \* the lesson text the last step delivered, if it did
    out,              \* the messages the last handler sent (reply, push)
    raised,           \* whether an exception left the last handler
    trace,            \* the remote-store calls the last handler made
    edited,           \* when the "teachers" sheet was last edited
    call,             \* the function last applied on its own: name, inputs, result
    threads           \* the handlers in flight at once: thread -> its locals

vars == <<now, ticks, PENDING, TEACHERS_CACHE, ws_teachers, ws_students,
          ws_log, delivered, out, raised, trace, edited, call, threads>>

-----------------------------------------------------------------------------
(* Bounds of the model *)

\* the clock advances at most this many times
MaxTicks == 2
\* the attendance log holds at most this many data rows
MaxLog == 2

\* the clock's reading at start (any epoch second past the cache TTL)
StartTime == 100
\* the steps by which the clock advances
TickSteps == {1, 30, 600}
\* the data rows the log may hold when a lesson text arrives in SpecSession
MaxSessionLog == 0
\* the data rows of a "teacher_students" sheet a roster is computed from
MaxRosterRows == 3
\* the names of a roster a keyword is searched in
MaxRoster == 3
\* the handlers in flight at once
MaxThreads == 2

-----------------------------------------------------------------------------
(* Program constants *)

PENDING_TIMEOUT_SEC == 10 * 60
TEACHERS_CACHE_TTL_SEC == 30
\* students_all[:12] and len(students_all) > 12
ListLimit == 12
\* hits are cut at 5 rows
RecordsLimit == 5

-----------------------------------------------------------------------------
(* Strings: sequences of characters *)

Digits == {"0", "1", "2", "3", "4", "5", "6", "7", "8", "9"}

DigitVal(c) ==
    CASE c = "0" -> 0 [] c = "1" -> 1 [] c = "2" -> 2 [] c = "3" -> 3
      [] c = "4" -> 4 [] c = "5" -> 5 [] c = "6" -> 6 [] c = "7" -> 7
      [] c = "8" -> 8 [] c = "9" -> 9

\* str.startswith
StartsWith(s, p) == Len(s) >= Len(p) /\ SubSeq(s, 1, Len(p)) = p

RECURSIVE LStrip(_)
LStrip(s) == IF s # << >> /\ Head(s) = " " THEN LStrip(Tail(s)) ELSE s

RECURSIVE RStrip(_)
RStrip(s) ==
    IF s # << >> /\ s[Len(s)] = " " THEN RStrip(SubSeq(s, 1, Len(s) - 1)) ELSE s

\* str.strip
Strip(s) == RStrip(LStrip(s))

\* the index of the first occurrence of character c in s, 0 when there is none
RECURSIVE IndexOf(_, _, _)
IndexOf(s, c, i) ==
    IF i > Len(s) THEN 0 ELSE IF s[i] = c THEN i ELSE IndexOf(s, c, i + 1)

\* s.split(c, 1): one or two parts
Split1(s, c) ==
    LET i == IndexOf(s, c, 1)
    IN  IF i = 0 THEN <<s>>
        ELSE <<SubSeq(s, 1, i - 1), SubSeq(s, i + 1, Len(s))>>

\* s.split(c, 2): one, two or three parts
Split2(s, c) ==
    LET a == Split1(s, c)
    IN  IF Len(a) = 1 THEN a ELSE <<a[1]>> \o Split1(a[2], c)

\* s.split(c): all the parts
RECURSIVE SplitAll(_, _)
SplitAll(s, c) ==
    LET i == IndexOf(s, c, 1)
    IN  IF i = 0 THEN <<s>>
        ELSE <<SubSeq(s, 1, i - 1)>> \o SplitAll(SubSeq(s, i + 1, Len(s)), c)

\* kw in s: kw occurs in s as a contiguous substring
Contains(s, kw) ==
    \E i \in 1..(Len(s) - Len(kw) + 1) : SubSeq(s, i, i + Len(kw) - 1) = kw

AllDigits(s) == s # << >> /\ \A i \in 1..Len(s) : s[i] \in Digits

RECURSIVE DigitsVal(_)
DigitsVal(s) ==
    IF s = << >> THEN 0
    ELSE 10 * DigitsVal(SubSeq(s, 1, Len(s) - 1)) + DigitVal(s[Len(s)])

Unsigned(s) == IF s # << >> /\ Head(s) \in {"-", "+"} THEN Tail(s) ELSE s
Sign(s) == IF s # << >> /\ Head(s) = "-" THEN -1 ELSE 1

\* int(s): [ok, v]; ok = FALSE stands for ValueError.  Decimal digits with
\* an optional sign, surrounding blanks ignored, as int() reads them.
IntParse(s) ==
    LET u == Unsigned(Strip(s))
    IN  IF AllDigits(u) THEN [ok |-> TRUE, v |-> Sign(Strip(s)) * DigitsVal(u)]
        ELSE [ok |-> FALSE, v |-> 0]

\* the fraction digits d as thousandths (at most three digits)
FracVal(d) ==
    CASE Len(d) = 0 -> 0
      [] Len(d) = 1 -> 100 * DigitsVal(d)
      [] Len(d) = 2 -> 10 * DigitsVal(d)
      [] OTHER -> DigitsVal(d)

\* float(s) in thousandths: [ok, v]; ok = FALSE stands for ValueError.
\* Plain decimal notation with at most three fraction digits (the inputs of
\* this model); anything else here is not a number.
FloatParse(s) ==
    LET t == Strip(s)
        u == Unsigned(t)
        p == Split1(u, ".")
        ip == p[1]
        fp == IF Len(p) = 2 THEN p[2] ELSE << >>
        wellFormed ==
            /\ ip = << >> \/ AllDigits(ip)
            /\ fp = << >> \/ (AllDigits(fp) /\ Len(fp) <= 3)
            /\ ip # << >> \/ fp # << >>
    IN  IF wellFormed
        THEN [ok |-> TRUE, v |-> Sign(t) * (1000 * DigitsVal(ip) + FracVal(fp))]
        ELSE [ok |-> FALSE, v |-> 0]

\* round(x, 2) on thousandths: to the nearest multiple of 10, a tie to the
\* even hundredth (Python rounds half to even).  -4 rounds to 0: Python's
\* -0.0, which is not < 0.
Round2(x) ==
    LET q == x \div 10
        r == x % 10
    IN  IF r < 5 THEN 10 * q
        ELSE IF r > 5 THEN 10 * (q + 1)
        ELSE IF q % 2 = 0 THEN 10 * q ELSE 10 * (q + 1)

-----------------------------------------------------------------------------
(* The texts of the source *)

T_day == <<"shang", "ke", "ri", ":">>
T_student == <<"xuan", "ze", "xue", "sheng", ":">>
T_lesson == <<"tang", "shu", ":">>
T_search == <<"sou", "xun">>
T_searchKw == <<"sou", "xun", ":">>
T_searchEntry == <<"sou", "xun", "xue", "sheng", ":">>
T_leave == <<"qing", "jia">>
T_attended == <<"shang", "ke">>
T_contact == <<"lian", "luo", "jiao", "shi">>
\* the texts that ask for the sender's own id (lao shi bao dao = "teacher
\* check-in", wo de = "my")
T_identity ==
    {<<"lao", "shi", "bao", "dao">>, <<"I", "D">>, <<"i", "d">>,
     <<"wo", "de", "I", "D">>, <<"wo", "de", " ", "i", "d">>,
     <<"wo", "de", "I", "d">>}

\* postback data; "action=attendance", "_day" and "action=records" each stand
\* for that run of characters, which no split of the source cuts
D_attendance == <<"action=attendance">>
D_attendance_day == <<"action=attendance", "_day">>
D_records == <<"action=records">>
D_wd == <<"w", "d", "=">>

\* actors: a LINE user id, or none (getattr(event.source, "user_id", None))
T1 == <<"T", "1">>
U2 == <<"U", "2">>
NoUid == << >>

Amy == <<"A", "m", "y">>
Bob == <<"B", "o", "b">>
Zed == <<"Z", "e", "d">>

-----------------------------------------------------------------------------
(* The machine state a handler threads through its statements:             *)
(*   P, C, S, L  PENDING, TEACHERS_CACHE, ws_students, ws_log              *)
(*   out         the messages sent so far                                  *)
(*   trace       the remote-store calls made so far                        *)
(*   st          "run", "ret" (returned) or "exc" (an exception in flight) *)
(*   err         what the exception in flight is                           *)
(*   val         the value the last called function returned               *)

Machine(P, C, S, L) ==
    [P |-> P, C |-> C, S |-> S, L |-> L, out |-> << >>, trace |-> << >>,
     st |-> "run", err |-> "", val |-> 0]

\* a message: its kind and the semantic fields the source fills in
Msg(kind, name, x, y, list, flag) ==
    [kind |-> kind, name |-> name, x |-> x, y |-> y, list |-> list, flag |-> flag]

Text(kind) == Msg(kind, << >>, 0, 0, << >>, FALSE)

\* line_bot_api.reply_message / push_message
Send(m, msg) == [m EXCEPT !.out = Append(@, msg)]

\* return
Return(m) == [m EXCEPT !.st = "ret"]

\* raise
Raise(m, err) == [m EXCEPT !.st = "exc", !.err = err]

\* the handler has returned or raised: the statements that follow do not run
Stopped(m) == m.st # "run"

\* One call of the remote store (gspread).  The call whose index in the
\* handler's run is f fails with an exception; f = 0 lets every call succeed.
Remote(m, op, f) ==
    IF Len(m.trace) + 1 = f THEN Raise([m EXCEPT !.trace = Append(@, op)], "remote")
    ELSE [m EXCEPT !.trace = Append(@, op)]

-----------------------------------------------------------------------------
(* Time *)

\* datetime.now(TZ_TAIPEI).isoweekday() at epoch second t: Mon=1..Sun=7
\* (the epoch's first day, 1970-01-01, is a Thursday)
weekday_today_1to7(t) == ((((t + 8 * 3600) \div 86400) + 3) % 7) + 1

-----------------------------------------------------------------------------
(* Session store *)

Session(stage, weekday, ts) == [stage |-> stage, weekday |-> weekday, ts |-> ts]

\* the comparison of pending_get, as a bug would have it: >= for >
pending_expired_ge(st, t) == t - st.ts >= PENDING_TIMEOUT_SEC

\* _now_ts() - st.get("ts", 0) > PENDING_TIMEOUT_SEC
pending_expired(st, t) == t - st.ts > PENDING_TIMEOUT_SEC

\* pending_get(uid) at time t on the dict P: the dict afterwards, whether a
\* session is returned, and the session returned
pending_get(P, uid, t) ==
    IF uid \notin DOMAIN P
    THEN [P |-> P, has |-> FALSE, st |-> Session("", 0, 0)]
    ELSE IF pending_expired(P[uid], t)
    THEN [P |-> [u \in DOMAIN P \ {uid} |-> P[u]], has |-> FALSE,
          st |-> Session("", 0, 0)]
    ELSE [P |-> P, has |-> TRUE, st |-> P[uid]]

\* pending_set(uid, stage, weekday) at time t
pending_set(P, uid, stage, weekday, t) ==
    [u \in DOMAIN P \cup {uid} |->
        IF u = uid THEN Session(stage, weekday, t) ELSE P[u]]

\* pending_clear(uid); no handler calls it
pending_clear(P, uid) == [u \in DOMAIN P \ {uid} |-> P[u]]

\* st = pending_get(uid); wd = st.get("weekday") if st else weekday_today_1to7()
SessionWeekday(g, t) == IF g.has THEN g.st.weekday ELSE weekday_today_1to7(t)

-----------------------------------------------------------------------------
(* Teachers cache *)

\* the ids of the rows after the header: column B, stripped, non-empty
RECURSIVE TeacherIds(_, _)
TeacherIds(rows, i) ==
    IF i > Len(rows) THEN {}
    ELSE (IF i # 1 /\ Len(rows[i]) >= 2 /\ Strip(rows[i][2]) # << >>
          THEN {Strip(rows[i][2])} ELSE {})
             \cup TeacherIds(rows, i + 1)

\* the test of refresh_teachers_cache, as a bug would have it: <= for <
cache_fresh_le(C, t) == t - C.ts <= TEACHERS_CACHE_TTL_SEC

\* now - TEACHERS_CACHE["ts"] < TEACHERS_CACHE_TTL_SEC
cache_fresh(C, t) == t - C.ts < TEACHERS_CACHE_TTL_SEC

\* TEACHERS_CACHE["ids"] = ids; TEACHERS_CACHE["ts"] = now, once the rows
\* are fetched
cache_store(m, rows, t) ==
    IF Stopped(m) THEN m
    ELSE [m EXCEPT !.C = [ts |-> t, ids |-> TeacherIds(rows, 1)]]

\* the refresh, as a bug would have it: the ids are cleared before the fetch
refresh_teachers_cache_cleared(m, rows, t, f) ==
    IF cache_fresh(m.C, t) THEN m
    ELSE cache_store(Remote([m EXCEPT !.C.ids = {}], "teachers.get_all_values", f),
                     rows, t)

\* refresh_teachers_cache(force=False) at time t with the sheet `rows`
refresh_teachers_cache(m, rows, t, f) ==
    IF cache_fresh(m.C, t) THEN m
    ELSE cache_store(Remote(m, "teachers.get_all_values", f), rows, t)

\* return uid in TEACHERS_CACHE["ids"]: val is 1 for True, 0 for False
cache_has(m, uid) ==
    IF Stopped(m) THEN m
    ELSE [m EXCEPT !.val = IF uid \in m.C.ids THEN 1 ELSE 0]

\* is_teacher(uid): the machine afterwards
is_teacher(m, uid, rows, t, f) ==
    cache_has(refresh_teachers_cache(m, rows, t, f), uid)

-----------------------------------------------------------------------------
(* Students sheet and attendance log *)

\* a cell of column B: a number (thousandths), blank, or other text
Num(v) == [t |-> "num", v |-> v]
Blank == [t |-> "blank", v |-> 0]
Junk == [t |-> "text", v |-> 0]

\* the sheet row (2, 3, ...) of the first name equal to student_name, 0 for None
RECURSIVE find_row(_, _, _)
find_row(S, student_name, idx) ==
    IF idx > Len(S) THEN 0
    ELSE IF Strip(S[idx].A) = student_name THEN idx
    ELSE find_row(S, student_name, idx + 1)

\* the loop of find_student_row over the names fetched
row_of(m, student_name) ==
    IF Stopped(m) THEN m
    ELSE [m EXCEPT !.val = find_row(m.S, student_name, 2)]

\* find_student_row(student_name): val is the row, 0 for None
find_student_row(m, student_name, f) ==
    row_of(Remote(m, "students.col_values", f), student_name)

\* float(val) of the cell fetched, "" reading as 0.0
read_cell(m, row) ==
    IF Stopped(m) THEN m
    ELSE IF m.S[row].B.t = "blank" THEN [m EXCEPT !.val = 0]
    ELSE IF m.S[row].B.t = "num" THEN [m EXCEPT !.val = m.S[row].B.v]
    ELSE Raise(m, "remaining_classes not a number")

\* get_remaining after row = find_student_row(student_name)
get_at(m, f) ==
    IF Stopped(m) THEN m
    ELSE IF m.val = 0 THEN Raise(m, "student not found")
    ELSE read_cell(Remote(m, "students.cell", f), m.val)

\* get_remaining(student_name): val is the balance read
get_remaining(m, student_name, f) ==
    get_at(find_student_row(m, student_name, f), f)

\* the write of set_remaining, as a bug would have it: the cell is not written
write_cell_lost(m, row, remaining) == m

\* ws_students.update_cell(row, 2, remaining), once the call is through
write_cell(m, row, remaining) ==
    IF Stopped(m) THEN m
    ELSE [m EXCEPT !.S[row].B = Num(remaining)]

\* set_remaining after row = find_student_row(student_name)
set_at(m, remaining, f) ==
    IF Stopped(m) THEN m
    ELSE IF m.val = 0 THEN Raise(m, "student not found")
    ELSE write_cell(Remote(m, "students.update_cell", f), m.val, remaining)

\* set_remaining(student_name, remaining)
set_remaining(m, student_name, remaining, f) ==
    set_at(find_student_row(m, student_name, f), remaining, f)

\* ws_log.append_row(row), once the call is through
log_row(m, row) ==
    IF Stopped(m) THEN m
    ELSE [m EXCEPT !.L = Append(@, row)]

\* append_log(teacher_line_id, student_name, classes, status, remaining_after)
\* at time t (now_taipei_str())
append_log(m, teacher_line_id, student_name, classes, status, remaining_after, t, f) ==
    log_row(Remote(m, "log.append_row", f),
            <<t, teacher_line_id, student_name, classes, status, remaining_after>>)

-----------------------------------------------------------------------------
(* Roster *)

HeaderRow == <<<<"h">>, <<"h">>, <<"h">>>>

\* the pupils of a class larger than a card: Pa .. Pm
Pupils ==
    [k \in 1..13 |->
        <<"P", <<"a", "b", "c", "d", "e", "f", "g", "h", "i", "j", "k", "l", "m">>[k]>>]

\* the rows of the first n pupils, of teacher_line_id on weekday
ClassRows(teacher_line_id, n, weekday) ==
    [k \in 1..n |-> <<teacher_line_id, Pupils[k], weekday>>]

\* the remote "teacher_students" sheet: teacher_line_id, student_name, weekday;
\* on weekday 5 a class of 13, on weekday 6 a class of 12
ws_teacher_students ==
    <<HeaderRow,
      <<T1, Amy, <<"3">>>>,
      <<T1, Bob, <<" ", "3">>>>,
      <<T1, Amy, <<"3">>>>,
      <<T1, Zed, <<"x">>>>,
      <<T1, Bob>>,
      <<U2, Zed, <<"3">>>>,
      <<T1, << >>, <<"3">>>>,
      <<T1, Zed, <<"7">>>>>>
    \o ClassRows(T1, ListLimit + 1, <<"5">>)
    \o ClassRows(T1, ListLimit, <<"6">>)

\* the names of the rows of teacher_line_id on weekday, in row order
RECURSIVE roster_scan(_, _, _, _)
roster_scan(rows, i, teacher_line_id, weekday) ==
    IF i > Len(rows) THEN << >>
    ELSE LET row == rows[i]
             rest == roster_scan(rows, i + 1, teacher_line_id, weekday)
         IN  IF i = 1 \/ Len(row) < 3 THEN rest
             ELSE LET tid == Strip(row[1])
                      name == Strip(row[2])
                      wd_raw == Strip(row[3])
                      wd == IntParse(wd_raw)
                  IN  IF tid = << >> \/ name = << >> \/ wd_raw = << >> THEN rest
                      ELSE IF ~wd.ok THEN rest
                      ELSE IF tid = teacher_line_id /\ wd.v = weekday
                      THEN <<name>> \o rest
                      ELSE rest

\* the de-duplication, as a bug would have it: every occurrence is kept
uniq_keep_all(xs, acc) == xs

\* uniq keep order
RECURSIVE uniq(_, _)
uniq(xs, acc) ==
    IF xs = << >> THEN acc
    ELSE IF \E i \in 1..Len(acc) : acc[i] = Head(xs) THEN uniq(Tail(xs), acc)
    ELSE uniq(Tail(xs), Append(acc, Head(xs)))

\* get_teacher_students_by_weekday: the list it returns from the rows
roster_of(rows, teacher_line_id, weekday) ==
    uniq(roster_scan(rows, 1, teacher_line_id, weekday), << >>)

\* the filter, as a bug would have it: the names that start with the keyword
RECURSIVE keep_starting(_, _)
keep_starting(students, kw) ==
    IF students = << >> THEN << >>
    ELSE (IF StartsWith(Head(students), kw) THEN <<Head(students)>> ELSE << >>)
             \o keep_starting(Tail(students), kw)

\* filter_students_by_keyword(students, keyword)
RECURSIVE keep_matching(_, _)
keep_matching(students, kw) ==
    IF students = << >> THEN << >>
    ELSE (IF Contains(Head(students), kw) THEN <<Head(students)>> ELSE << >>)
             \o keep_matching(Tail(students), kw)

filter_students_by_keyword(students, keyword) ==
    LET kw == Strip(keyword)
    IN  IF kw = << >> THEN students ELSE keep_matching(students, kw)

\* xs[:n]
Take(xs, n) == SubSeq(xs, 1, IF Len(xs) < n THEN Len(xs) ELSE n)

\* the card, as a bug would have it: the search is offered from 12 names on
student_list_card_ge(keyword, students_all, wd) ==
    Msg("student_list", keyword, wd, wd, Take(students_all, ListLimit),
        Len(students_all) >= ListLimit)

\* flex_student_list_card(title, students_all[:12], len(students_all) > 12, wd);
\* the title is the weekday's label and, in a search, the keyword
student_list_card(keyword, students_all, wd) ==
    Msg("student_list", keyword, wd, wd, Take(students_all, ListLimit),
        Len(students_all) > ListLimit)

-----------------------------------------------------------------------------
(* handle_postback *)

\* for p in parts: if p.startswith("wd="): wd = int(p.split("=", 1)[1])
\* acc is wd so far: [ok, v], ok = FALSE for None; an int() that raises ends
\* the loop with wd = None
RECURSIVE parse_wd(_, _, _)
parse_wd(parts, i, acc) ==
    IF i > Len(parts) THEN acc
    ELSE IF StartsWith(parts[i], D_wd)
    THEN IF IntParse(Split1(parts[i], "=")[2]).ok
         THEN parse_wd(parts, i + 1,
                       [ok |-> TRUE, v |-> IntParse(Split1(parts[i], "=")[2]).v])
         ELSE [ok |-> FALSE, v |-> 0]
    ELSE parse_wd(parts, i + 1, acc)

\* the last rows of uid in the log, most recent first, at most 5
RECURSIVE recent_hits(_, _, _, _)
recent_hits(rows, i, uid, hits) ==
    IF i < 2 \/ Len(hits) >= RecordsLimit THEN hits
    ELSE IF Len(rows[i]) >= 6 /\ Strip(rows[i][2]) = uid
    THEN recent_hits(rows, i - 1, uid, Append(hits, rows[i]))
    ELSE recent_hits(rows, i - 1, uid, hits)

\* ... or (not is_teacher(uid)): deny(); return
deny_unless(m) ==
    IF Stopped(m) THEN m
    ELSE IF m.val = 0 THEN Return(Send(m, Text("deny")))
    ELSE m

\* if not uid or (not is_teacher(uid)): deny(); return
\* The machine afterwards: returned with the denial, raised by the fetch of
\* is_teacher, or still running for a teacher.
teachers_only(m, uid, rows, t, f) ==
    IF uid = NoUid THEN Return(Send(m, Text("deny")))
    ELSE deny_unless(is_teacher(m, uid, rows, t, f))

\* reply_message(...); return
Reply(m, msg) == IF Stopped(m) THEN m ELSE Return(Send(m, msg))

\* app.py:386-397: the session is set, the roster read and the list sent
attendance_day_list(m, uid, wd, t, f) ==
    Reply(Remote([m EXCEPT !.P = pending_set(m.P, uid, "in_day", wd, t)],
                 "teacher_students.get_all_values", f),
          student_list_card(<< >>, roster_of(ws_teacher_students, uid, wd), wd))

\* if not wd or wd < 1 or wd > 7
bad_wd(wd) == ~wd.ok \/ wd.v = 0 \/ wd.v < 1 \/ wd.v > 7

\* app.py:371-397: action=attendance_day&wd=3
postback_attendance_day(m, uid, data, t, f) ==
    IF bad_wd(parse_wd(SplitAll(data, "&"), 1, [ok |-> FALSE, v |-> 0]))
    THEN Return(Send(m, Text("wd_parse_error")))
    ELSE attendance_day_list(
             m, uid, parse_wd(SplitAll(data, "&"), 1, [ok |-> FALSE, v |-> 0]).v, t, f)

\* the reply of action=records: the hits, or "no records yet"
records_reply(hits) ==
    IF hits = << >> THEN Text("no_records")
    ELSE Msg("records", << >>, 0, 0, hits, FALSE)

\* app.py:409-432: the rows fetched are searched and the reply sent
records_send(m, uid) ==
    IF Stopped(m) THEN m
    ELSE Return(Send(m, records_reply(recent_hits(m.L, Len(m.L), uid, << >>))))

\* app.py:404-432: behind the gate of action=records
records_read(m, uid, f) ==
    IF Stopped(m) THEN m
    ELSE records_send(Remote(m, "log.get_all_values", f), uid)

\* app.py:399-432: action=records
postback_records(m, uid, rows, t, f) ==
    records_read(teachers_only(m, uid, rows, t, f), uid, f)

\* app.py:361-397: the branches behind the gate of "action=attendance..."
postback_attendance(m, uid, data, t, f) ==
    IF Stopped(m) THEN m
    ELSE IF data = D_attendance
    THEN Return(Send(m, Msg("weekday_picker", << >>, weekday_today_1to7(t), 0,
                            << >>, FALSE)))
    ELSE IF StartsWith(data, D_attendance_day)
    THEN postback_attendance_day(m, uid, data, t, f)
    ELSE m

\* the default of handle_postback, as a bug would have it: the session is
\* cleared and nothing is replied
postback_rest_clear(m, uid, data, rows, t, f) ==
    IF Stopped(m) THEN m
    ELSE IF data = D_records THEN postback_records(m, uid, rows, t, f)
    ELSE Return([m EXCEPT !.P = pending_clear(m.P, uid)])

\* app.py:399-435: action=records, and the default
postback_rest(m, uid, data, rows, t, f) ==
    IF Stopped(m) THEN m
    ELSE IF data = D_records THEN postback_records(m, uid, rows, t, f)
    ELSE Return(Send(m, Msg("echo", << >>, 0, 0, data, FALSE)))

\* app.py:355-397: if data.startswith("action=attendance"): the gate and
\* the attendance branches
postback_gated(m, uid, data, rows, t, f) ==
    IF StartsWith(data, D_attendance)
    THEN postback_attendance(teachers_only(m, uid, rows, t, f), uid, data, t, f)
    ELSE m

\* handle_postback(event) with data stripped
postback_stripped(m, uid, data, rows, t, f) ==
    postback_rest(postback_gated(m, uid, data, rows, t, f), uid, data, rows, t, f)

\* handle_postback(event) at time t: the machine when the handler ends
handle_postback(m, uid, rawdata, rows, t, f) ==
    postback_stripped(m, uid, Strip(rawdata), rows, t, f)

-----------------------------------------------------------------------------
(* handle_message *)

\* the gate's prefixes, as a bug would have them: the lesson prefix is missing
IsFlowText_open(text) ==
    \/ StartsWith(text, T_day)
    \/ StartsWith(text, T_student)
    \/ StartsWith(text, T_search)
    \/ StartsWith(text, T_searchKw)

\* text.startswith(("...:", ...)): the texts of the attendance flow
IsFlowText(text) ==
    \/ StartsWith(text, T_day)
    \/ StartsWith(text, T_student)
    \/ StartsWith(text, T_lesson)
    \/ StartsWith(text, T_search)
    \/ StartsWith(text, T_searchKw)

\* the reply of the class day: the list, or "no students that day"
day_reply(students, wd) ==
    IF students = << >> THEN Msg("no_students", << >>, wd, 0, << >>, FALSE)
    ELSE student_list_card(<< >>, students, wd)

\* app.py:483-500: the session is set, the roster read and the list sent
day_list(m, uid, wd, t, f) ==
    Reply(Remote([m EXCEPT !.P = pending_set(m.P, uid, "in_day", wd, t)],
                 "teacher_students.get_all_values", f),
          day_reply(roster_of(ws_teacher_students, uid, wd), wd))

\* app.py:472-500: choose the class day; wd is int(...) of the text's tail
day_parsed(m, uid, wd, t, f) ==
    IF ~wd.ok THEN Return(Send(m, Text("day_format_error")))
    ELSE IF wd.v < 1 \/ wd.v > 7 THEN Return(Send(m, Text("day_range_error")))
    ELSE day_list(m, uid, wd.v, t, f)

message_day(m, uid, text, t, f) ==
    day_parsed(m, uid, IntParse(Strip(Split1(text, ":")[2])), t, f)

\* st = pending_get(uid); wd = int(...), or of the session, or today's
entry_weekday(g, n, t) == IF n.ok THEN n.v ELSE SessionWeekday(g, t)

\* app.py:502-516 after st = pending_get(uid) (g) and int(...) (n)
search_entry_set(m, uid, g, n, t) ==
    Return(Send([m EXCEPT !.P = pending_set(g.P, uid, "searching",
                                            entry_weekday(g, n, t), t)],
                Msg("search_prompt", << >>, entry_weekday(g, n, t), 0, << >>, FALSE)))

\* app.py:502-516: enter the search
message_search_entry(m, uid, text, t) ==
    search_entry_set(m, uid, pending_get(m.P, uid, t),
                     IntParse(Strip(Split1(text, ":")[2])), t)

\* the reply of a search: the matches, or "nothing found"
search_reply(keyword, matches, wd) ==
    IF matches = << >> THEN Msg("no_match", keyword, wd, 0, << >>, FALSE)
    ELSE student_list_card(keyword, matches, wd)

\* the search, as a bug would have it: the search rewrites the session
search_with_refresh(m, uid, g, keyword, t, f) ==
    Reply(Remote([m EXCEPT !.P = pending_set(g.P, uid, "searching",
                                             SessionWeekday(g, t), t)],
                 "teacher_students.get_all_values", f),
          search_reply(keyword,
                       filter_students_by_keyword(
                           roster_of(ws_teacher_students, uid, SessionWeekday(g, t)),
                           keyword),
                       SessionWeekday(g, t)))

\* app.py:518-542 after st = pending_get(uid) (g)
search_with(m, uid, g, keyword, t, f) ==
    Reply(Remote([m EXCEPT !.P = g.P], "teacher_students.get_all_values", f),
          search_reply(keyword,
                       filter_students_by_keyword(
                           roster_of(ws_teacher_students, uid, SessionWeekday(g, t)),
                           keyword),
                       SessionWeekday(g, t)))

\* app.py:518-542: search by keyword
message_search(m, uid, text, t, f) ==
    search_with(m, uid, pending_get(m.P, uid, t), Strip(Split1(text, ":")[2]), t, f)

\* app.py:544-551: choose the student
message_student(m, text) ==
    Return(Send(m, Msg("lesson_card", Strip(Split1(text, ":")[2]), 0, 0, << >>, FALSE)))

\* st = pending_get(teacher_id) (g), the reply, then the push of the "next
\* step" card
done_with(m, g, reply, t) ==
    Return(Send(Send([m EXCEPT !.P = g.P], reply),
                Msg("after_done", << >>, SessionWeekday(g, t), 0, << >>, FALSE)))

\* the end of both branches of the lesson block, as a bug would have it:
\* the session is cleared
lesson_done_clear(m, teacher_id, reply, t) ==
    IF Stopped(m) THEN m
    ELSE done_with([m EXCEPT !.P = pending_clear(m.P, teacher_id)],
                   [P |-> pending_clear(m.P, teacher_id), has |-> FALSE,
                    st |-> Session("", 0, 0)], reply, t)

\* the end of both branches of the lesson block
lesson_done(m, teacher_id, reply, t) ==
    IF Stopped(m) THEN m
    ELSE done_with(m, pending_get(m.P, teacher_id, t), reply, t)

\* the leave, as a bug would have it: the leave costs one class
leave_log_charged(m, teacher_id, name, t, f) ==
    IF Stopped(m) THEN m
    ELSE lesson_done(append_log(set_remaining(m, name, m.val - 1000, f),
                                teacher_id, name, << >>, T_leave, m.val - 1000, t, f),
                     teacher_id, Msg("absent", name, m.val - 1000, 0, << >>, FALSE), t)

\* app.py:566-579 after remaining = get_remaining(name) (m.val)
leave_log(m, teacher_id, name, t, f) ==
    IF Stopped(m) THEN m
    ELSE lesson_done(append_log(m, teacher_id, name, << >>, T_leave, m.val, t, f),
                     teacher_id, Msg("absent", name, m.val, 0, << >>, FALSE), t)

\* app.py:563-579: leave: no deduction, only a log row
lesson_leave(m, teacher_id, name, t, f) ==
    leave_log(get_remaining(m, name, f), teacher_id, name, t, f)

\* the guard of the deduction, as a bug would have it: > for <
insufficient_gt(after) == after > 0

\* if after < 0
insufficient(after) == after < 0

\* app.py:595-609 after set_remaining(name, after)
deduct_log(m, teacher_id, name, lesson, after, t, f) ==
    IF Stopped(m) THEN m
    ELSE lesson_done(append_log(m, teacher_id, name, lesson, T_attended, after, t, f),
                     teacher_id, Msg("done", name, after, 0, lesson, FALSE), t)

\* the rejection, as a bug would have it: the rejected deduction is logged
deduct_commit_logged(m, teacher_id, name, lesson, used, before, after, t, f) ==
    IF insufficient(after)
    THEN Reply(append_log(m, teacher_id, name, lesson, T_attended, before, t, f),
               Msg("insufficient", name, before, used, << >>, FALSE))
    ELSE deduct_log(set_remaining(m, name, after, f), teacher_id, name, lesson,
                    after, t, f)

\* app.py:585-609 with before and after computed
deduct_commit(m, teacher_id, name, lesson, used, before, after, t, f) ==
    IF insufficient(after)
    THEN Return(Send(m, Msg("insufficient", name, before, used, << >>, FALSE)))
    ELSE deduct_log(set_remaining(m, name, after, f), teacher_id, name, lesson,
                    after, t, f)

\* app.py:583-609 after before = get_remaining(name) (m.val)
deduct_from(m, teacher_id, name, lesson, used, t, f) ==
    IF Stopped(m) THEN m
    ELSE deduct_commit(m, teacher_id, name, lesson, used, m.val,
                       Round2(m.val - used), t, f)

\* app.py:581-609 with used = float(lesson)
deduct_used(m, teacher_id, name, lesson, used, t, f) ==
    IF ~used.ok THEN Raise(m, "could not convert string to float")
    ELSE deduct_from(get_remaining(m, name, f), teacher_id, name, lesson, used.v, t, f)

\* app.py:581-609: the deduction
lesson_deduct(m, teacher_id, name, lesson, t, f) ==
    deduct_used(m, teacher_id, name, lesson, FloatParse(lesson), t, f)

\* app.py:555-609: the body of the try, parts = text.split(":", 2)
lesson_try(m, teacher_id, parts, t, f) ==
    IF Len(parts) < 3 THEN Raise(m, "not enough values to unpack")
    ELSE IF teacher_id = NoUid THEN Return(Send(m, Text("no_uid")))
    ELSE IF parts[3] = T_leave THEN lesson_leave(m, teacher_id, parts[2], t, f)
    ELSE lesson_deduct(m, teacher_id, parts[2], parts[3], t, f)

\* except Exception as e: the failure is replied
lesson_except(m) ==
    IF m.st = "exc"
    THEN Return(Send([m EXCEPT !.st = "run"], Msg("fail", << >>, 0, 0, <<m.err>>, FALSE)))
    ELSE m

\* app.py:553-613: the lesson block
message_lesson(m, uid, text, t, f) ==
    lesson_except(lesson_try(m, uid, Split2(text, ":"), t, f))

\* app.py:471-619: the branches behind the teachers-only gate
message_flow(m, uid, text, t, f) ==
    IF Stopped(m) THEN m
    ELSE IF StartsWith(text, T_day) THEN message_day(m, uid, text, t, f)
    ELSE IF StartsWith(text, T_searchEntry) THEN message_search_entry(m, uid, text, t)
    ELSE IF StartsWith(text, T_searchKw) THEN message_search(m, uid, text, t, f)
    ELSE IF StartsWith(text, T_student) THEN message_student(m, text)
    ELSE IF StartsWith(text, T_lesson) THEN message_lesson(m, uid, text, t, f)
    ELSE Return(Send(m, Text("help")))

\* app.py:465-469: the teachers-only gate of the flow texts
message_gated(m, uid, text, rows, t, f) ==
    IF IsFlowText(text) THEN teachers_only(m, uid, rows, t, f) ELSE m

\* handle_message(event) with text stripped
message_stripped(m, uid, text, rows, t, f) ==
    IF text \in T_identity
    THEN IF uid = NoUid THEN Return(Send(m, Text("id_missing")))
         ELSE Return(Send(m, Msg("id", uid, 0, 0, << >>, FALSE)))
    ELSE IF text = T_contact THEN Return(Send(m, Text("contact")))
    ELSE message_flow(message_gated(m, uid, text, rows, t, f), uid, text, t, f)

\* handle_message(event) at time t: the machine when the handler ends
handle_message(m, uid, rawtext, rows, t, f) ==
    message_stripped(m, uid, Strip(rawtext), rows, t, f)

-----------------------------------------------------------------------------
(* The events the model delivers *)

Actors == {T1, U2, NoUid}

A_half == <<"0", ".", "5">>
A_one_half == <<"1", ".", "5">>
A_half_4 == <<"0", ".", "5", "0", "4">>

LessonTexts ==
    {T_lesson \o Amy \o <<":">> \o a :
        a \in {A_half, A_one_half, A_half_4, T_leave, <<"a", "b", "c">>}}
    \cup {T_lesson \o Zed \o <<":">> \o A_half,
          T_lesson \o Amy}

FlowTexts ==
    {T_day \o <<"3">>, T_day \o <<" ", "8">>, T_day \o <<"x">>,
     T_searchEntry \o <<"3">>, T_searchEntry \o <<"9">>, T_searchEntry \o <<"x">>,
     T_searchKw \o <<"m">>, T_searchKw \o <<"q">>,
     T_search \o <<"z">>,
     T_student \o Amy}

OtherTexts == {<<"I", "D">>, T_contact, <<"h", "i">>}

TextInputs == LessonTexts \cup FlowTexts \cup OtherTexts

\* an "end attendance" command: the source has no token for it
D_end == {<<"action=end_attendance">>, <<"action=attendance", "_", "e", "n", "d">>}

PostbackInputs ==
    {D_attendance, D_records,
     D_attendance_day \o <<"&">> \o D_wd \o <<"3">>,
     D_attendance_day \o <<"&">> \o D_wd \o <<"9">>,
     D_attendance_day \o <<"&">> \o D_wd \o <<"x">>}
    \cup D_end

\* the "teachers" sheet, with T1 a teacher and without
TeachersWithT1 == <<<<<<"h">>, <<"h">>>>, <<<<"t">>, <<" ">> \o T1>>, <<<<"n">>>>, <<<<"e">>, <<" ">>>>>>
TeachersWithoutT1 == <<<<<<"h">>, <<"h">>>>, <<<<"n">>>>, <<<<"e">>, <<" ">>>>>>
TeacherTables == {TeachersWithT1, TeachersWithoutT1}

LogHeader == <<0, <<"h">>, <<"h">>, <<"h">>, <<"h">>, 0>>

\* the "students" sheet with Amy's cell c: a header, Amy, Bob, and a second
\* row named Amy (names are not unique)
StudentsSheet(c) ==
    <<[A |-> <<"h">>, B |-> Junk],
      [A |-> Amy \o <<" ">>, B |-> c],
      [A |-> Bob, B |-> Num(1000)],
      [A |-> Amy, B |-> Num(9000)]>>

InitialCells == {Num(2000), Num(500), Blank, Junk}

\* an event is <<type, sender, text or data, whether it is a second delivery>>
NoEvent == <<"none", NoUid, << >>, FALSE>>

TextEvent(uid, text) == <<"text", uid, text, FALSE>>
PostbackEvent(uid, data) == <<"postback", uid, data, FALSE>>

EventType(e) == e[1]
EventUid(e) == e[2]
EventBody(e) == e[3]
IsDuplicate(e) == e[4]

-----------------------------------------------------------------------------
(* The state machine *)

\* the state after start, but for the function applied on its own
Quiet(cells) ==
    /\ now = StartTime
    /\ ticks = 0
    /\ PENDING = << >>
    /\ TEACHERS_CACHE = [ts |-> 0, ids |-> {}]
    /\ ws_teachers = TeachersWithT1
    /\ \E c \in cells : ws_students = StudentsSheet(c)
    /\ ws_log = <<LogHeader>>
    /\ delivered = NoEvent
    /\ out = << >>
    /\ raised = FALSE
    /\ trace = << >>
    /\ edited = 0
    /\ threads = << >>

InitWith(cells) == Quiet(cells) /\ call = <<"none">>

Init == InitWith(InitialCells)

Start == Machine(PENDING, TEACHERS_CACHE, ws_students, ws_log)

\* the handler's run on event e, its f-th remote call failing (f = 0: none)
Run(e, f) ==
    IF EventType(e) = "text"
    THEN handle_message(Start, EventUid(e), EventBody(e), ws_teachers, now, f)
    ELSE handle_postback(Start, EventUid(e), EventBody(e), ws_teachers, now, f)

\* the remote calls the handler makes on event e when none fails
Calls(e) == Len(Run(e, 0).trace)

\* the handler has run to machine m on event e
Handled(m, e) ==
    /\ Len(m.L) <= MaxLog + 1
    /\ PENDING' = m.P
    /\ TEACHERS_CACHE' = m.C
    /\ ws_students' = m.S
    /\ ws_log' = m.L
    /\ delivered' = IF EventType(e) = "text" /\ StartsWith(Strip(EventBody(e)), T_lesson)
                    THEN e ELSE NoEvent
    /\ out' = m.out
    /\ raised' = (m.st = "exc")
    /\ trace' = m.trace
    /\ UNCHANGED <<now, ticks, ws_teachers, edited, call, threads>>

\* event e is handled with every remote call succeeding, or with one of the
\* calls the handler makes failing
Deliver(e) == \E f \in 0..Calls(e) : Handled(Run(e, f), e)

\* a text message arrives and handle_message runs
HandleMessage(uid, text) == Deliver(TextEvent(uid, text))

\* a postback arrives and handle_postback runs
HandlePostback(uid, data) == Deliver(PostbackEvent(uid, data))

\* the platform delivers the last lesson text once more (at-least-once
\* delivery of the webhook)
Redeliver ==
    /\ EventType(delivered) = "text"
    /\ Deliver([delivered EXCEPT ![4] = TRUE])

\* time passes
Tick(d) ==
    /\ ticks < MaxTicks
    /\ now' = now + d
    /\ ticks' = ticks + 1
    /\ delivered' = NoEvent
    /\ out' = << >>
    /\ raised' = FALSE
    /\ trace' = << >>
    /\ UNCHANGED <<PENDING, TEACHERS_CACHE, ws_teachers, ws_students, ws_log,
                   edited, call, threads>>

\* somebody edits the "teachers" sheet
EditTeachers(rows) ==
    /\ rows # ws_teachers
    /\ ws_teachers' = rows
    /\ edited' = now
    /\ delivered' = NoEvent
    /\ out' = << >>
    /\ raised' = FALSE
    /\ trace' = << >>
    /\ UNCHANGED <<now, ticks, PENDING, TEACHERS_CACHE, ws_students, ws_log,
                   call, threads>>

\* the whole system
Next ==
    \/ \E uid \in Actors, text \in TextInputs : HandleMessage(uid, text)
    \/ \E uid \in Actors, data \in PostbackInputs : HandlePostback(uid, data)
    \/ Redeliver
    \/ \E d \in TickSteps : Tick(d)
    \/ \E rows \in TeacherTables : EditTeachers(rows)

Spec == Init /\ [][Next]_vars

\* The ledger: the lesson texts, delivered once or again, at one instant
LedgerNext ==
    \/ \E uid \in {T1, U2}, text \in LessonTexts : HandleMessage(uid, text)
    \/ Redeliver

SpecLedger == Init /\ [][LedgerNext]_vars

\* The conversation: every kind of event while time passes, up to the first
\* row of the attendance log
SessionTexts ==
    {T_day \o <<"3">>,
     T_searchEntry \o <<"x">>,
     T_searchKw \o <<"m">>,
     T_search \o <<"z">>,
     T_student \o Amy,
     T_lesson \o Amy \o <<":">> \o A_half, T_lesson \o Amy \o <<":">> \o T_leave,
     <<"I", "D">>, T_contact}

SessionPostbacks ==
    {D_attendance, D_records,
     D_attendance_day \o <<"&">> \o D_wd \o <<"3">>}
    \cup D_end

SessionNext ==
    /\ Len(ws_log) - 1 <= MaxSessionLog
    /\ \/ \E uid \in Actors, text \in SessionTexts : HandleMessage(uid, text)
       \/ \E uid \in Actors, data \in SessionPostbacks : HandlePostback(uid, data)
       \/ \E d \in {1, 600} : Tick(d)

SpecSession == InitWith({Num(2000)}) /\ [][SessionNext]_vars

\* The teachers cache: the gate is passed or not while time passes and the
\* "teachers" sheet is edited
CacheSteps == {1, 29, 30}

CacheNext ==
    \/ \E uid \in {T1, U2} : HandleMessage(uid, T_student \o Amy)
    \/ \E d \in CacheSteps : Tick(d)
    \/ \E rows \in TeacherTables : EditTeachers(rows)

SpecCache == InitWith({Num(2000)}) /\ [][CacheNext]_vars

\* The lists: the classes of 13 and of 12 are listed and searched
CardTexts ==
    {T_day \o <<"5">>, T_day \o <<"6">>, T_day \o <<"3">>,
     T_searchKw \o <<"P">>, T_searchKw \o <<"a">>, T_searchKw \o <<"q">>}

CardPostbacks ==
    {D_attendance_day \o <<"&">> \o D_wd \o <<"5">>,
     D_attendance_day \o <<"&">> \o D_wd \o <<"6">>}

CardsNext ==
    \/ \E uid \in {T1, U2}, text \in CardTexts : HandleMessage(uid, text)
    \/ \E uid \in {T1, U2}, data \in CardPostbacks : HandlePostback(uid, data)
    \/ Tick(600)

SpecCards == InitWith({Num(2000)}) /\ [][CardsNext]_vars

\* Deductions in flight: the lesson block of handle_message (app.py:581-593)
\* run by several threads of the server, a step of a thread being the piece
\* of the handler around one access to the "students" sheet or the log.  A
\* thread is past the teachers-only gate; wrote is the rank of its write
\* among the writes made (0: none yet).
Deduction(uid, name, lesson) ==
    [pc |-> "arrived", uid |-> uid, name |-> name, lesson |-> lesson,
     used |-> FloatParse(lesson).v, before |-> 0, after |-> 0, wrote |-> 0]

\* the writes made so far
Writes == Cardinality({k \in 1..Len(threads) : threads[k].wrote # 0})

\* used = float(lesson) and the event is in a thread of its own
Arrive(uid, name, lesson) ==
    /\ Len(threads) < MaxThreads
    /\ threads' = Append(threads, Deduction(uid, name, lesson))
    /\ UNCHANGED <<now, ticks, PENDING, TEACHERS_CACHE, ws_teachers, ws_students,
                   ws_log, delivered, out, raised, trace, edited, call>>

\* the thread after before = get_remaining(name) read val and
\* after = round(before - used, 2); if after < 0 it replies and returns
deduction_read(th, val) ==
    [th EXCEPT !.before = val,
               !.after = Round2(val - th.used),
               !.pc = IF insufficient(Round2(val - th.used))
                      THEN "rejected" ELSE "read"]

\* before = get_remaining(name); after = round(before - used, 2)
ReadBalance(k) ==
    /\ threads[k].pc = "arrived"
    /\ threads' = [threads EXCEPT
                      ![k] = deduction_read(@, get_remaining(Start, @.name, 0).val)]
    /\ UNCHANGED <<now, ticks, PENDING, TEACHERS_CACHE, ws_teachers, ws_students,
                   ws_log, delivered, out, raised, trace, edited, call>>

\* the write of a deduction, as a fix would have it: the amount is taken
\* off the balance as it is when the write is made
deduction_write_current(S, th) ==
    set_remaining(Machine(PENDING, TEACHERS_CACHE, S, ws_log), th.name,
                  Round2(get_remaining(Machine(PENDING, TEACHERS_CACHE, S, ws_log),
                                       th.name, 0).val - th.used), 0).S

\* the sheet after set_remaining(name, after) of thread th
deduction_write(S, th) ==
    set_remaining(Machine(PENDING, TEACHERS_CACHE, S, ws_log), th.name, th.after, 0).S

\* set_remaining(name, after)
WriteBalance(k) ==
    /\ threads[k].pc = "read"
    /\ ws_students' = deduction_write(ws_students, threads[k])
    /\ threads' = [threads EXCEPT ![k].pc = "written", ![k].wrote = Writes + 1]
    /\ UNCHANGED <<now, ticks, PENDING, TEACHERS_CACHE, ws_teachers, ws_log,
                   delivered, out, raised, trace, edited, call>>

\* append_log(teacher_id, name, lesson, attended, after)
AppendLog(k) ==
    /\ threads[k].pc = "written"
    /\ ws_log' = append_log(Start, threads[k].uid, threads[k].name, threads[k].lesson,
                            T_attended, threads[k].after, now, 0).L
    /\ threads' = [threads EXCEPT ![k].pc = "done"]
    /\ UNCHANGED <<now, ticks, PENDING, TEACHERS_CACHE, ws_teachers, ws_students,
                   delivered, out, raised, trace, edited, call>>

DeductionsNext ==
    \/ \E name \in {Amy, Bob}, lesson \in {A_half, A_one_half} : Arrive(T1, name, lesson)
    \/ \E k \in 1..Len(threads) : ReadBalance(k)
    \/ \E k \in 1..Len(threads) : WriteBalance(k)
    \/ \E k \in 1..Len(threads) : AppendLog(k)

SpecDeductions == InitWith({Num(2000)}) /\ [][DeductionsNext]_vars

\* Sessions in flight: pending_get (app.py:68-75) run by several threads of
\* the server while sessions are set and time passes.  A step of a thread is
\* one statement of pending_get; pending_set is the one store of its dict
\* assignment.  No handler calls pending_clear.
Getter(uid) ==
    [pc |-> "called", uid |-> uid, has |-> FALSE, st |-> Session("", 0, 0)]

\* a handler calls pending_get(uid)
CallGet(uid) ==
    /\ Len(threads) < MaxThreads
    /\ threads' = Append(threads, Getter(uid))
    /\ UNCHANGED <<now, ticks, PENDING, TEACHERS_CACHE, ws_teachers, ws_students,
                   ws_log, delivered, out, raised, trace, edited, call>>

\* st = PENDING.get(uid); if not st: return None
GetRead(k) ==
    /\ threads[k].pc = "called"
    /\ threads' = [threads EXCEPT
                      ![k] = IF threads[k].uid \in DOMAIN PENDING
                             THEN [threads[k] EXCEPT !.pc = "read", !.has = TRUE,
                                                     !.st = PENDING[threads[k].uid]]
                             ELSE [threads[k] EXCEPT !.pc = "returned"]]
    /\ UNCHANGED <<now, ticks, PENDING, TEACHERS_CACHE, ws_teachers, ws_students,
                   ws_log, delivered, out, raised, trace, edited, call>>

\* if _now_ts() - st.get("ts", 0) > PENDING_TIMEOUT_SEC: ... else return st
GetCheck(k) ==
    /\ threads[k].pc = "read"
    /\ threads' = [threads EXCEPT
                      ![k].pc = IF pending_expired(threads[k].st, now)
                                THEN "expired" ELSE "returned"]
    /\ UNCHANGED <<now, ticks, PENDING, TEACHERS_CACHE, ws_teachers, ws_students,
                   ws_log, delivered, out, raised, trace, edited, call>>

\* PENDING.pop(uid, None); return None
GetPop(k) ==
    /\ threads[k].pc = "expired"
    /\ PENDING' = pending_clear(PENDING, threads[k].uid)
    /\ threads' = [threads EXCEPT ![k].pc = "returned", ![k].has = FALSE]
    /\ UNCHANGED <<now, ticks, TEACHERS_CACHE, ws_teachers, ws_students,
                   ws_log, delivered, out, raised, trace, edited, call>>

\* a handler calls pending_set(uid, stage, weekday)
SetSession(uid, stage, weekday) ==
    /\ PENDING' = pending_set(PENDING, uid, stage, weekday, now)
    /\ UNCHANGED <<now, ticks, TEACHERS_CACHE, ws_teachers, ws_students,
                   ws_log, delivered, out, raised, trace, edited, call, threads>>

PendingNext ==
    \/ \E uid \in {T1, U2} : CallGet(uid)
    \/ \E k \in 1..Len(threads) : GetRead(k)
    \/ \E k \in 1..Len(threads) : GetCheck(k)
    \/ \E k \in 1..Len(threads) : GetPop(k)
    \/ \E uid \in {T1, U2} : SetSession(uid, "in_day", 3)
    \/ \E d \in {1, 600} : Tick(d)

SpecPending == InitWith({Num(2000)}) /\ [][PendingNext]_vars

\* The weekday: days are chosen and searches entered with weekdays in and
\* out of 1..7, typed or sent by a button
WeekdayTexts ==
    {T_day \o <<"3">>, T_day \o <<"9">>, T_day \o <<"0">>,
     T_searchEntry \o <<"3">>, T_searchEntry \o <<"9">>, T_searchEntry \o <<"0">>,
     T_searchEntry \o <<"-", "1">>, T_searchEntry \o <<"x">>,
     T_searchKw \o <<"m">>}

WeekdayPostbacks ==
    {D_attendance_day \o <<"&">> \o D_wd \o <<"3">>,
     D_attendance_day \o <<"&">> \o D_wd \o <<"9">>,
     D_attendance_day \o <<"&">> \o D_wd \o <<"0">>}

WeekdayNext ==
    \/ \E uid \in {T1, U2}, text \in WeekdayTexts : HandleMessage(uid, text)
    \/ \E uid \in {T1, U2}, data \in WeekdayPostbacks : HandlePostback(uid, data)
    \/ Tick(600)

SpecWeekday == InitWith({Num(2000)}) /\ [][WeekdayNext]_vars

\* The functions applied on their own: the inputs are drawn at the start and
\* the function is applied to them
RosterRows ==
    {<<T1, Amy, <<"3">>>>,
     <<<<" ">> \o T1, <<" ">> \o Amy \o <<" ">>, <<"3">>>>,
     <<T1, Bob, <<" ", "3">>>>,
     <<T1, Zed, <<"x">>>>,
     <<T1, Bob>>,
     <<T1, <<" ">>, <<"3">>>>,
     <<U2, Zed, <<"3">>>>,
     <<T1, Zed, <<"7">>>>}

RosterSheets ==
    {<<HeaderRow>> \o rows :
        rows \in UNION {[1..n -> RosterRows] : n \in 0..MaxRosterRows}}

RosterInputs ==
    {<<"roster", rows, uid, wd>> :
        rows \in RosterSheets, uid \in {T1, U2}, wd \in {3, 7}}

AnY == <<"A", "n", " ", "Y">>

FilterRosters ==
    UNION {[1..n -> {Amy, Bob, Zed, AnY}] : n \in 0..MaxRoster}

Keywords ==
    {<< >>, <<" ">>, <<"y">>, <<"y", " ">>, <<" ", "m", "y">>, <<"B">>,
     <<"A", "y">>, <<"n", " ", "Y">>}

FilterInputs ==
    {<<"filter", students, keyword>> :
        students \in FilterRosters, keyword \in Keywords}

\* The commands of the buttons: <<kind, weekday, student name, lesson>>
NoLesson == <<"none", 0>>

\* options = ["0.5", "1", "1.5", "2", leave] and what each stands for: the
\* amount in thousandths, or the absence
options == <<A_half, <<"1">>, A_one_half, <<"2">>, T_leave>>

Lessons ==
    <<<<"used", 500>>, <<"used", 1000>>, <<"used", 1500>>, <<"used", 2000>>,
      <<"leave", 0>>>>

\* the names a roster can hold: stripped, not empty
CommandNames ==
    {Amy, AnY, <<"wang", "xiao">>, <<"A", ":", "y">>, <<":", "A">>,
     <<"A", "&", "y">>, <<"w", "d", "=", "3">>}

Commands ==
    {<<"pick_student", 0, name, NoLesson>> : name \in CommandNames}
    \cup {<<"pick_lesson", 0, name, Lessons[k]>> :
              name \in CommandNames, k \in 1..Len(Lessons)}
    \cup {<<"continue", wd, << >>, NoLesson>> : wd \in 1..7}

\* the token of the button of command c:
\* flex_student_list_card: f"xuan ze xue sheng:{name}";
\* flex_lesson_card: f"tang shu:{student_name}:{opt}";
\* flex_after_done_card: f"action=attendance_day&wd={weekday}"
encode(c) ==
    IF c[1] = "pick_student" THEN <<"text", T_student \o c[3]>>
    ELSE IF c[1] = "pick_lesson"
    THEN <<"text", T_lesson \o c[3] \o <<":">>
                       \o options[CHOOSE k \in 1..Len(Lessons) : Lessons[k] = c[4]]>>
    ELSE <<"postback", D_attendance_day \o <<"&">> \o D_wd
                           \o <<CHOOSE d \in Digits : DigitVal(d) = c[2]>>>>

NoCommand == <<"none", 0, << >>, NoLesson>>

\* lesson == leave, else used = float(lesson)
decode_lesson(name, lesson) ==
    IF lesson = T_leave THEN <<"pick_lesson", 0, name, <<"leave", 0>>>>
    ELSE IF FloatParse(lesson).ok
    THEN <<"pick_lesson", 0, name, <<"used", FloatParse(lesson).v>>>>
    ELSE NoCommand

\* handle_message: name = text.split(":", 1)[1].strip();
\* _, name, lesson = text.split(":", 2)
decode_text(text) ==
    IF StartsWith(text, T_student)
    THEN <<"pick_student", 0, Strip(Split1(text, ":")[2]), NoLesson>>
    ELSE IF StartsWith(text, T_lesson)
    THEN IF Len(Split2(text, ":")) < 3 THEN NoCommand
         ELSE decode_lesson(Split2(text, ":")[2], Split2(text, ":")[3])
    ELSE NoCommand

\* handle_postback: for p in data.split("&"): if p.startswith("wd="): wd = int(...)
decode_data(data) ==
    IF StartsWith(data, D_attendance_day)
    THEN IF bad_wd(parse_wd(SplitAll(data, "&"), 1, [ok |-> FALSE, v |-> 0]))
         THEN NoCommand
         ELSE <<"continue", parse_wd(SplitAll(data, "&"), 1, [ok |-> FALSE, v |-> 0]).v,
                << >>, NoLesson>>
    ELSE NoCommand

\* what the handler of the token's event takes the token to say
decode(token) ==
    IF token[1] = "text" THEN decode_text(Strip(token[2]))
    ELSE decode_data(Strip(token[2]))

CommandInputs == {<<"command", c>> : c \in Commands}

FunctionInputs == RosterInputs \cup FilterInputs \cup CommandInputs

\* every variable but call
others ==
    <<now, ticks, PENDING, TEACHERS_CACHE, ws_teachers, ws_students, ws_log,
      delivered, out, raised, trace, edited, threads>>

\* get_teacher_students_by_weekday(uid, wd) is applied to the rows drawn
ApplyRoster ==
    /\ call[1] = "roster"
    /\ Len(call) = 4
    /\ call' = Append(call, roster_of(call[2], call[3], call[4]))
    /\ UNCHANGED others

\* filter_students_by_keyword(students, keyword) is applied to the inputs drawn
ApplyFilter ==
    /\ call[1] = "filter"
    /\ Len(call) = 3
    /\ call' = Append(call, filter_students_by_keyword(call[2], call[3]))
    /\ UNCHANGED others

\* the button of the command drawn is built and pressed: its token is decoded
ApplyCodec ==
    /\ call[1] = "command"
    /\ Len(call) = 2
    /\ call' = Append(call, decode(encode(call[2])))
    /\ UNCHANGED others

FunctionsNext ==
    \/ ApplyRoster
    \/ ApplyFilter
    \/ ApplyCodec

FunctionsInit == Quiet({Num(2000)}) /\ call \in FunctionInputs

SpecFunctions == FunctionsInit /\ [][FunctionsNext]_vars

-----------------------------------------------------------------------------
(* What the properties speak of *)

\* the event "<lesson prefix><name>:<amount>" of actor uid
Deduct(uid, name, a) == TextEvent(uid, T_lesson \o name \o <<":">> \o a)

\* the event "<lesson prefix><name>:<leave>" of actor uid
Leave(uid, name) == TextEvent(uid, T_lesson \o name \o <<":">> \o T_leave)

Names == {Amy, Bob, Zed}
Amounts == {A_half, A_one_half, A_half_4}

\* float(lesson) in thousandths
AmountVal(a) == FloatParse(a).v

\* the sheet row of the student named, 0 for none
RowOf(S, name) == find_row(S, name, 2)

\* the student is in the sheet and the cell of the balance is a number or
\* blank
HasBalance(S, name) ==
    /\ RowOf(S, name) # 0
    /\ S[RowOf(S, name)].B.t \in {"num", "blank"}

\* the balance stored for the student, a blank cell counting as 0
BalanceOf(S, name) ==
    IF S[RowOf(S, name)].B.t = "num" THEN S[RowOf(S, name)].B.v ELSE 0

\* the ids is_teacher(uid) tests uid against at this instant: the cache if
\* fresh, the sheet otherwise
IdsNow ==
    IF cache_fresh(TEACHERS_CACHE, now) THEN TEACHERS_CACHE.ids
    ELSE TeacherIds(ws_teachers, 1)

Authorized(uid) == uid # NoUid /\ uid \in IdsNow

\* no numeric cell of the sheet is negative
NonNegative(S) == \A i \in 1..Len(S) : S[i].B.t = "num" => S[i].B.v >= 0

\* the reply of kind k is among the messages sent
Sent(o, k) == \E i \in 1..Len(o) : o[i].kind = k

\* the place of remote call op in the trace, 0 if it was not made
RECURSIVE Place(_, _, _)
Place(tr, op, i) ==
    IF i > Len(tr) THEN 0 ELSE IF tr[i] = op THEN i ELSE Place(tr, op, i + 1)

\* the number of times remote call op was made
CountOf(tr, op) == Cardinality({i \in 1..Len(tr) : tr[i] = op})

\* the balance was written once, the row appended once, in this order
WriteThenAppend(tr) ==
    /\ CountOf(tr, "students.update_cell") = 1
    /\ CountOf(tr, "log.append_row") = 1
    /\ Place(tr, "students.update_cell", 1) < Place(tr, "log.append_row", 1)

-----------------------------------------------------------------------------
(* The ledger *)

\* C1: balance floor.  Whatever deduction events were handled, no balance in
\* the students sheet is negative; and a deduction whose result
\* round(before - amount, 2) is below 0 leaves the sheet as it was, whether
\* or not a remote call fails on the way.
C1_BalanceFloor ==
    /\ NonNegative(ws_students)
    /\ \A uid \in {T1, U2}, name \in Names, a \in Amounts :
         \A f \in 0..Calls(Deduct(uid, name, a)) :
             /\ NonNegative(Run(Deduct(uid, name, a), f).S)
             /\ (/\ HasBalance(ws_students, name)
                 /\ Round2(BalanceOf(ws_students, name) - AmountVal(a)) < 0)
                => Run(Deduct(uid, name, a), f).S = ws_students

\* C1 happens: the balance went down to exactly 0 and the next deduction was
\* rejected
C1_Witness ==
    /\ ws_students[2].B = Num(0)
    /\ Sent(out, "insufficient")
    /\ Len(ws_log) = 2

\* the handler run on a deduction was rejected as a pure error: nothing
\* written, nothing appended, one reply carrying the balance and the amount
RejectedPure(m, name, a) ==
    /\ m.S = ws_students
    /\ m.L = ws_log
    /\ m.st = "ret"
    /\ m.out = <<Msg("insufficient", name, BalanceOf(ws_students, name),
                     AmountVal(a), << >>, FALSE)>>

\* C2 as stated: when before - amount < 0 the deduction is rejected as a
\* pure error.
C2_RejectedWhenDifferenceNegative ==
    \A name \in Names, a \in Amounts :
        (/\ Authorized(T1)
         /\ HasBalance(ws_students, name)
         /\ BalanceOf(ws_students, name) - AmountVal(a) < 0)
        => RejectedPure(Run(Deduct(T1, name, a), 0), name, a)

\* C2, amended: when round(before - amount, 2) < 0 the deduction of an
\* authorized actor is rejected as a pure error: nothing is written to the
\* students sheet, no row is appended to the log, and the one reply carries
\* the current balance and the requested amount.
C2_RejectedWhenRoundedNegative ==
    \A name \in Names, a \in Amounts :
        (/\ Authorized(T1)
         /\ HasBalance(ws_students, name)
         /\ Round2(BalanceOf(ws_students, name) - AmountVal(a)) < 0)
        => RejectedPure(Run(Deduct(T1, name, a), 0), name, a)

\* C2 happens: 1.5 was asked of a balance of 0.5 and refused
C2_Witness ==
    /\ out = <<Msg("insufficient", Amy, 500, 1500, << >>, FALSE)>>
    /\ ws_students = StudentsSheet(Num(500))
    /\ ws_log = <<LogHeader>>

\* the handler run on a deduction stored `after` for the student, then
\* appended the one row of the lesson
Deducted(m, uid, name, a, after) ==
    /\ m.S = [ws_students EXCEPT ![RowOf(ws_students, name)].B = Num(after)]
    /\ m.L = Append(ws_log, <<now, uid, name, a, T_attended, after>>)
    /\ WriteThenAppend(m.trace)
    /\ m.st = "ret"

\* C3 as stated: a deduction with before - amount >= 0 stores exactly
\* before - amount.
C3_StoresExactDifference ==
    \A name \in Names, a \in Amounts :
        (/\ Authorized(T1)
         /\ HasBalance(ws_students, name)
         /\ BalanceOf(ws_students, name) - AmountVal(a) >= 0)
        => Deducted(Run(Deduct(T1, name, a), 0), T1, name, a,
                    BalanceOf(ws_students, name) - AmountVal(a))

\* C3, amended: a deduction with after = round(before - amount, 2) >= 0 and
\* no remote failure stores after in the student's cell and then appends
\* exactly one row <time, sender, student, amount, attended, after>; the
\* balance is written before the row is appended, so when the append fails
\* the balance is already written and the log is as it was.
C3_StoresRoundedDifference ==
    \A name \in Names, a \in Amounts :
        (/\ Authorized(T1)
         /\ HasBalance(ws_students, name)
         /\ Round2(BalanceOf(ws_students, name) - AmountVal(a)) >= 0)
        => /\ Deducted(Run(Deduct(T1, name, a), 0), T1, name, a,
                       Round2(BalanceOf(ws_students, name) - AmountVal(a)))
           /\ Run(Deduct(T1, name, a), Calls(Deduct(T1, name, a))).L = ws_log
           /\ Run(Deduct(T1, name, a), Calls(Deduct(T1, name, a))).S =
                  Run(Deduct(T1, name, a), 0).S

\* C3 happens: 0.504 was deducted from 2.0, 1.5 stored and logged
C3_Witness ==
    /\ Sent(out, "done")
    /\ WriteThenAppend(trace)
    /\ ws_students[2].B = Num(1500)
    /\ ws_log = <<LogHeader, <<now, T1, Amy, A_half_4, T_attended, 1500>>>>

\* C4: absence.  A leave recorded by an authorized actor for a student whose
\* balance can be read never changes the students sheet, whichever remote
\* call fails, and with no failure appends exactly one row
\* <time, sender, student, "", leave, balance>.
C4_AbsenceKeepsBalance ==
    \A name \in Names :
        (Authorized(T1) /\ HasBalance(ws_students, name))
        => /\ \A f \in 0..Calls(Leave(T1, name)) :
                  Run(Leave(T1, name), f).S = ws_students
           /\ Run(Leave(T1, name), 0).L =
                  Append(ws_log, <<now, T1, name, << >>, T_leave,
                                   BalanceOf(ws_students, name)>>)
           /\ CountOf(Run(Leave(T1, name), 0).trace, "log.append_row") = 1
           /\ CountOf(Run(Leave(T1, name), 0).trace, "students.update_cell") = 0

\* C4 happens: a leave was logged and the balance is the initial one
C4_Witness ==
    /\ Sent(out, "absent")
    /\ ws_students = StudentsSheet(Num(2000))
    /\ ws_log = <<LogHeader, <<now, T1, Amy, << >>, T_leave, 2000>>>>

\* C5: duplicate delivery is harmless.  When the lesson event that was just
\* handled and committed is delivered a second time, the students sheet and
\* the log stay as the first delivery left them.
C5_DuplicateHarmless ==
    [][(IsDuplicate(delivered') /\ ~IsDuplicate(delivered) /\ Sent(out, "done"))
       => (ws_students' = ws_students /\ ws_log' = ws_log)]_vars

-----------------------------------------------------------------------------
(* The gate and the session *)

GatedTexts == FlowTexts \cup LessonTexts

GatedPostbacks == PostbackInputs \ {<<"action=end_attendance">>}

GatedEvents(uid) ==
    {TextEvent(uid, text) : text \in GatedTexts}
        \cup {PostbackEvent(uid, data) : data \in GatedPostbacks}

\* the handler run ended with the denial as its only effect, or, the fetch
\* of the teachers having failed, with no effect
Denied(m) ==
    /\ m.P = PENDING
    /\ m.S = ws_students
    /\ m.L = ws_log
    /\ \/ m.st = "ret" /\ m.out = <<Text("deny")>>
       \/ m.st = "exc" /\ m.out = << >> /\ m.trace = <<"teachers.get_all_values">>

\* C6: the gate.  For an actor with no id or with an id is_teacher does not
\* find, every flow text and every gated postback has the denial as its only
\* effect: PENDING, the students sheet and the log stay as they were.  The
\* identity and contact texts are answered for every actor without any
\* remote call.
C6_GateEveryFlowEvent ==
    /\ \A uid \in Actors :
         ~Authorized(uid)
         => \A e \in GatedEvents(uid) :
                /\ Denied(Run(e, 0))
                /\ Run(e, 0).st = "ret"
                /\ Denied(Run(e, 1))
    /\ \A uid \in Actors, text \in T_identity \cup {T_contact} :
         /\ Run(TextEvent(uid, text), 0).st = "ret"
         /\ Len(Run(TextEvent(uid, text), 0).out) = 1
         /\ Run(TextEvent(uid, text), 0).out[1].kind
                = (IF text = T_contact THEN "contact"
                   ELSE IF uid = NoUid THEN "id_missing" ELSE "id")
         /\ Run(TextEvent(uid, text), 0).trace = << >>
         /\ Run(TextEvent(uid, text), 0).P = PENDING

\* C6 happens: while T1 has a session, an actor who is no teacher was denied
\* after the teachers were fetched
C6_Witness ==
    /\ out = <<Text("deny")>>
    /\ trace = <<"teachers.get_all_values">>
    /\ T1 \in DOMAIN PENDING
    /\ ws_log = <<LogHeader>>

\* the ages at which pending_get is asked
Ages == {0, 1, 599, 600, 601, 602, 1200}

\* pending_get at time t on the dict P returns the session of uid and leaves
\* P alone
Returned(P, uid, t) ==
    /\ pending_get(P, uid, t).has
    /\ pending_get(P, uid, t).st = P[uid]
    /\ pending_get(P, uid, t).P = P

\* pending_get at time t on the dict P returns none and removes the entry of
\* uid, the other entries staying
Evicted(P, uid, t) ==
    /\ ~pending_get(P, uid, t).has
    /\ DOMAIN pending_get(P, uid, t).P = DOMAIN P \ {uid}
    /\ \A u \in DOMAIN P \ {uid} : pending_get(P, uid, t).P[u] = P[u]

\* C7: session expiry.  A session written at time ts is returned by
\* pending_get at every time up to and including ts + 600, and at every later
\* time pending_get returns none and removes the entry.
C7_SessionExpiry ==
    \A uid \in DOMAIN PENDING :
        /\ \A d \in Ages :
               IF d <= 600
               THEN Returned(PENDING, uid, PENDING[uid].ts + d)
               ELSE Evicted(PENDING, uid, PENDING[uid].ts + d)
        /\ IF now - PENDING[uid].ts <= 600
           THEN Returned(PENDING, uid, now)
           ELSE Evicted(PENDING, uid, now)

\* C7 happens: the session of T1 is 601 s old
C7_Witness ==
    /\ T1 \in DOMAIN PENDING
    /\ now = PENDING[T1].ts + 601

\* the lesson events of T1 for Amy: a deduction and a leave
CommitEvents == {Deduct(T1, Amy, A_half), Leave(T1, Amy)}

\* the handler run appended a row to the log and returned
Committed(m) == m.st = "ret" /\ Len(m.L) = Len(ws_log) + 1

\* C8 as stated: after a committed lesson event PENDING holds no entry for
\* the actor.
C8_SessionClearedAfterCommit ==
    \A e \in CommitEvents :
        (Authorized(T1) /\ Committed(Run(e, 0))) => T1 \notin DOMAIN Run(e, 0).P

\* C8, amended: a committed lesson event does not clear the session.  A live
\* session (age <= 600 s) is kept as it was, with its stage, weekday and
\* timestamp; only an expired one is removed, by the pending_get that reads
\* the weekday for the next card.
C8_SessionKeptAfterCommit ==
    \A e \in CommitEvents :
        (Authorized(T1) /\ Committed(Run(e, 0)))
        => IF T1 \in DOMAIN PENDING /\ now - PENDING[T1].ts > 600
           THEN Run(e, 0).P = pending_clear(PENDING, T1)
           ELSE Run(e, 0).P = PENDING

\* C8 happens: the lesson was committed and the session of T1 is still there
C8_Witness ==
    /\ Sent(out, "done") \/ Sent(out, "absent")
    /\ Len(ws_log) = 2
    /\ T1 \in DOMAIN PENDING
    /\ now - PENDING[T1].ts <= 600

\* C9 as stated: an end_attendance command of an authorized actor clears the
\* actor's session and is not replied to.
C9_EndClearsSession ==
    \A data \in D_end :
        Authorized(T1)
        => /\ T1 \notin DOMAIN Run(PostbackEvent(T1, data), 0).P
           /\ Run(PostbackEvent(T1, data), 0).out = << >>

\* C9, amended: the handlers know no end_attendance command.  Such a
\* postback of an authorized actor falls to the default of handle_postback:
\* PENDING stays as it was and the data is echoed in one reply.
C9_EndIsEchoed ==
    \A data \in D_end :
        Authorized(T1)
        => /\ Run(PostbackEvent(T1, data), 0).P = PENDING
           /\ Run(PostbackEvent(T1, data), 0).out
                  = <<Msg("echo", << >>, 0, 0, data, FALSE)>>
           /\ Run(PostbackEvent(T1, data), 0).st = "ret"

\* C9 happens: the end command was echoed and the session of T1 is still there
C9_Witness ==
    /\ \E data \in D_end : out = <<Msg("echo", << >>, 0, 0, data, FALSE)>>
    /\ T1 \in DOMAIN PENDING

\* the flow events that write the session: a weekday chosen by text or by
\* postback, and the entry of the search
WritingEvents ==
    {TextEvent(T1, T_day \o <<"3">>),
     PostbackEvent(T1, D_attendance_day \o <<"&">> \o D_wd \o <<"3">>)}
        \cup {TextEvent(T1, T_searchEntry \o x) : x \in {<<"3">>, <<"9">>, <<"x">>}}

\* the flow events that only read the session: the student chosen, the
\* search by keyword, the lesson
ReadingEvents ==
    {TextEvent(T1, T_student \o Amy),
     TextEvent(T1, T_searchKw \o <<"m">>),
     TextEvent(T1, T_searchKw \o <<"q">>),
     Deduct(T1, Amy, A_half),
     Leave(T1, Amy)}

\* T1 has a session that pending_get returns now
Live == T1 \in DOMAIN PENDING /\ now - PENDING[T1].ts <= 600

\* C10 as stated: every flow event handled for an authorized actor with a
\* live session resets the session's timestamp.
C10_EveryFlowEventRefreshes ==
    \A e \in WritingEvents \cup ReadingEvents :
        (Authorized(T1) /\ Live)
        => /\ T1 \in DOMAIN Run(e, 0).P
           /\ Run(e, 0).P[T1].ts = now

\* C10, amended: only the events that write the session reset its timestamp:
\* a weekday chosen (text or postback) and the entry of the search.  The
\* student chosen, the search by keyword and the lesson read a live session
\* and leave it as it was, timestamp included, so the session expires 600 s
\* after the last weekday choice or search entry whatever was done since.
C10_OnlyWritingEventsRefresh ==
    (Authorized(T1) /\ Live)
    => /\ \A e \in WritingEvents :
              /\ T1 \in DOMAIN Run(e, 0).P
              /\ Run(e, 0).P[T1].ts = now
       /\ \A e \in ReadingEvents : Run(e, 0).P = PENDING

\* C10 happens: the student was chosen while the session of T1, written
\* earlier, was live, and the timestamp is the earlier one
C10_Witness ==
    /\ Sent(out, "lesson_card")
    /\ T1 \in DOMAIN PENDING
    /\ PENDING[T1].ts < now
    /\ now - PENDING[T1].ts <= 600

-----------------------------------------------------------------------------
(* The teachers cache *)

\* uid is in column B of a data row of the "teachers" sheet as it is now
InSheet(uid) ==
    \E i \in 2..Len(ws_teachers) :
        Len(ws_teachers[i]) >= 2 /\ Strip(ws_teachers[i][2]) = uid

\* is_teacher(uid) now, no fetch failing
Asked(uid) == is_teacher(Start, uid, ws_teachers, now, 0)

\* C11: staleness bound.  While the cache is younger than 30 s is_teacher
\* answers from the cached ids without a fetch; from age 30 s on it fetches
\* the sheet, stamps the cache with the time and answers from the sheet.
\* Hence once 30 s have passed since the last edit of the sheet, is_teacher
\* answers what the sheet says.
C11_StalenessBound ==
    \A uid \in {T1, U2} :
        /\ now - TEACHERS_CACHE.ts < 30
           => /\ Asked(uid).trace = << >>
              /\ Asked(uid).C = TEACHERS_CACHE
              /\ (Asked(uid).val = 1) = (uid \in TEACHERS_CACHE.ids)
        /\ now - TEACHERS_CACHE.ts >= 30
           => /\ Asked(uid).trace = <<"teachers.get_all_values">>
              /\ Asked(uid).C.ts = now
              /\ \A u \in {T1, U2} : (u \in Asked(uid).C.ids) = InSheet(u)
        /\ now - edited >= 30
           => /\ (Asked(uid).val = 1) = InSheet(uid)
              /\ Asked(uid).val \in {0, 1}

\* C11 happens: T1 was struck from the sheet, and 30 s later the gate fetched
\* the sheet and denied
C11_Witness ==
    /\ edited >= StartTime
    /\ now = edited + 30
    /\ ~InSheet(T1)
    /\ TEACHERS_CACHE = [ts |-> now, ids |-> {}]
    /\ trace = <<"teachers.get_all_values">>
    /\ out = <<Text("deny")>>

\* refresh_teachers_cache() now, its fetch failing if it makes one
Refreshed == refresh_teachers_cache(Start, ws_teachers, now, 1)

\* C12: a failed fetch keeps the cache.  When the fetch of the "teachers"
\* sheet fails in refresh_teachers_cache, the exception leaves the function
\* and the cached ids and the cache's timestamp are what they were; so they
\* are after a handler whose gate made the failing fetch.
C12_FetchFailureKeepsCache ==
    /\ now - TEACHERS_CACHE.ts >= 30
       => /\ Refreshed.st = "exc"
          /\ Refreshed.trace = <<"teachers.get_all_values">>
    /\ Refreshed.st = "exc" => Refreshed.C = TEACHERS_CACHE
    /\ \A uid \in {T1, U2} :
           Run(TextEvent(uid, T_student \o Amy), 1).st = "exc"
           => Run(TextEvent(uid, T_student \o Amy), 1).C = TEACHERS_CACHE

\* C12 happens: the fetch failed in the gate while the cache, more than 30 s
\* old, held T1, and the cache still holds T1 with its old timestamp
C12_Witness ==
    /\ raised
    /\ trace = <<"teachers.get_all_values">>
    /\ TEACHERS_CACHE.ids = {T1}
    /\ TEACHERS_CACHE.ts >= StartTime
    /\ now - TEACHERS_CACHE.ts >= 30

-----------------------------------------------------------------------------
(* The roster *)

\* row i of rows is an assignment of uid on weekday wd: it has its three
\* fields, none blank, the weekday an integer
Assigns(rows, i, uid, wd) ==
    /\ i >= 2
    /\ Len(rows[i]) >= 3
    /\ Strip(rows[i][1]) = uid
    /\ Strip(rows[i][2]) # << >>
    /\ IntParse(Strip(rows[i][3])).ok
    /\ IntParse(Strip(rows[i][3])).v = wd

\* the rows of rows that assign name to uid on wd
RowsOf(rows, uid, wd, name) ==
    {i \in 1..Len(rows) : Assigns(rows, i, uid, wd) /\ Strip(rows[i][2]) = name}

\* the first of a non-empty set of rows
First(I) == CHOOSE i \in I : \A j \in I : i <= j

\* r is the roster of uid on wd in rows: the names assigned, each once, in
\* the order of their first rows
IsRoster(r, rows, uid, wd) ==
    /\ \A j, k \in 1..Len(r) : j # k => r[j] # r[k]
    /\ \A j \in 1..Len(r) : RowsOf(rows, uid, wd, r[j]) # {}
    /\ \A i \in 1..Len(rows) :
           Assigns(rows, i, uid, wd)
           => \E j \in 1..Len(r) : r[j] = Strip(rows[i][2])
    /\ \A j, k \in 1..Len(r) :
           j < k => First(RowsOf(rows, uid, wd, r[j]))
                        < First(RowsOf(rows, uid, wd, r[k]))

\* C13: roster determinism.  get_teacher_students_by_weekday(uid, wd) returns
\* exactly the names of the rows that assign a student to uid on wd, each
\* name once, in the order of first occurrence; rows with a field missing or
\* blank, or a weekday that is no integer, are skipped; and the list is a
\* function of the rows alone: scanning the same rows again gives it again.
C13_RosterDeterminism ==
    (call[1] = "roster" /\ Len(call) = 5)
    => /\ IsRoster(call[5], call[2], call[3], call[4])
       /\ roster_of(call[2], call[3], call[4]) = call[5]

\* C13 happens: of three rows for T1 on weekday 3, Amy, Bob and Amy again
\* written with blanks, the roster is Amy, Bob
C13_Witness ==
    /\ call[1] = "roster"
    /\ Len(call) = 5
    /\ call[2] = <<HeaderRow, <<T1, Amy, <<"3">>>>, <<T1, Bob, <<" ", "3">>>>,
                   <<<<" ">> \o T1, <<" ">> \o Amy \o <<" ">>, <<"3">>>>>>
    /\ call[3] = T1
    /\ call[4] = 3
    /\ call[5] = <<Amy, Bob>>

\* the names of students that contain kw, in the order of students
Containing(students, kw) ==
    LET Has(name) == Contains(name, kw)
    IN  SelectSeq(students, Has)

-----------------------------------------------------------------------------
(* The student list *)

\* the events answered with a list of students
CardEvents ==
    {TextEvent(uid, text) : uid \in {T1, U2}, text \in CardTexts}
    \cup {PostbackEvent(uid, data) : uid \in {T1, U2}, data \in CardPostbacks}

\* the weekday event e is about in the state as it is: the one it names, or
\* for a search the session's
CardWeekday(e) ==
    IF EventType(e) = "text" /\ StartsWith(EventBody(e), T_searchKw)
    THEN IF EventUid(e) \in DOMAIN PENDING
            /\ now - PENDING[EventUid(e)].ts <= PENDING_TIMEOUT_SEC
         THEN PENDING[EventUid(e)].weekday
         ELSE weekday_today_1to7(now)
    ELSE DigitVal(EventBody(e)[Len(EventBody(e))])

\* the names event e is about: the class of the actor on the weekday, in a
\* search those that contain the keyword
CardList(e) ==
    LET class == {k \in 2..Len(ws_teacher_students) :
                      Assigns(ws_teacher_students, k, EventUid(e), CardWeekday(e))}
        names == {Strip(ws_teacher_students[k][2]) : k \in class}
    IN  IF EventType(e) = "text" /\ StartsWith(EventBody(e), T_searchKw)
        THEN {n \in names : Contains(n, SubSeq(EventBody(e), 4, Len(EventBody(e))))}
        ELSE names

\* the names on card msg
Shown(msg) == {msg.list[k] : k \in 1..Len(msg.list)}

\* C15: list truncation.  Every card that lists students (the day chosen by
\* text, the day chosen by button, a search by keyword) shows 12 names at
\* most, the first 12 of the list it is cut from, and offers the search
\* exactly when that list has more than 12 names.
C15_ListTruncation ==
    \A e \in CardEvents : \A f \in 0..Calls(e) :
        \A k \in 1..Len(Run(e, f).out) :
            LET msg == Run(e, f).out[k]
            IN  msg.kind = "student_list"
                => /\ Len(msg.list) <= 12
                   /\ Cardinality(Shown(msg)) = Len(msg.list)
                   /\ Shown(msg) \subseteq CardList(e)
                   /\ Cardinality(CardList(e)) <= 12 => Shown(msg) = CardList(e)
                   /\ \A j \in 1..Len(msg.list) :
                          \A n \in CardList(e) \ Shown(msg) :
                              First(RowsOf(ws_teacher_students, EventUid(e),
                                           CardWeekday(e), msg.list[j]))
                                  < First(RowsOf(ws_teacher_students, EventUid(e),
                                                 CardWeekday(e), n))
                   /\ msg.flag <=> Cardinality(CardList(e)) > 12

\* C15 happens: the search for "P" in the class of 13 shows 12 names and
\* offers the search
C15_Witness ==
    /\ Len(out) = 1
    /\ out[1].kind = "student_list"
    /\ out[1].name = <<"P">>
    /\ Len(out[1].list) = 12
    /\ out[1].flag

\* C15 happens also where nothing is cut: the class of 12 is shown whole
\* and no search is offered
C15_WitnessWhole ==
    /\ Len(out) = 1
    /\ out[1].kind = "student_list"
    /\ Len(out[1].list) = 12
    /\ ~out[1].flag

-----------------------------------------------------------------------------
(* The commands of the buttons *)

\* C16: command round trip.  For every command a button can carry (a student
\* picked from a roster, a lesson picked for a student, the same weekday
\* continued), decoding the button's token gives back the command's kind,
\* weekday, student name and lesson, also when the name holds ":", "&", "="
\* or characters outside ASCII.
C16_CommandRoundTrip ==
    (call[1] = "command" /\ Len(call) = 3) => call[3] = call[2]

\* What holds of the round trip: a command comes back as it was unless it
\* picks a lesson for a name that holds ":"
C16_RoundTripWithoutColon ==
    (call[1] = "command" /\ Len(call) = 3)
    => (call[3] = call[2]
        <=> ~(call[2][1] = "pick_lesson" /\ Contains(call[2][3], <<":">>)))

\* the round trip is made: the lesson of 1.5 picked for wang xiao comes back
C16_Witness ==
    /\ call[1] = "command"
    /\ Len(call) = 3
    /\ call[2] = <<"pick_lesson", 0, <<"wang", "xiao">>, <<"used", 1500>>>>
    /\ call[3] = call[2]

\* the round trip fails: the lesson of 0.5 picked for "A:y" is not decoded
\* as a command at all
C16_Lost ==
    /\ call[1] = "command"
    /\ Len(call) = 3
    /\ call[2] = <<"pick_lesson", 0, <<"A", ":", "y">>, <<"used", 500>>>>
    /\ call[3] = NoCommand

-----------------------------------------------------------------------------
(* Remote failures *)

\* the events of the conversation
SessionEvents ==
    {TextEvent(uid, text) : uid \in Actors, text \in SessionTexts}
    \cup {PostbackEvent(uid, data) : uid \in Actors, data \in SessionPostbacks}

\* C17: errors are recovered at the handler.  Whatever remote call fails
\* while an event is handled (the fetch of the teachers, of the roster, the
\* read or write of a balance, the read of or the append to the log), the
\* handler ends by a reply and no exception leaves it.
C17_ErrorsRecovered ==
    \A e \in SessionEvents : \A f \in 1..Calls(e) :
        /\ Run(e, f).st = "ret"
        /\ Run(e, f).out # << >>

\* What holds of the recovery: a failure is replied when it is a call of the
\* lesson block that fails, and leaves the handler otherwise
C17_RecoveredInLessonBlockOnly ==
    \A e \in SessionEvents : \A f \in 1..Calls(e) :
        IF Run(e, f).trace[f]
               \in {"students.col_values", "students.cell",
                    "students.update_cell", "log.append_row"}
        THEN Run(e, f).st = "ret" /\ Sent(Run(e, f).out, "fail")
        ELSE Run(e, f).st = "exc" /\ Run(e, f).out = << >>

\* an exception has left the handler: the fetch of the teachers failed and
\* nothing was replied
C17_Propagated ==
    /\ raised
    /\ out = << >>
    /\ trace = <<"teachers.get_all_values">>

\* C18: no partial commit.  When the handling of a picked lesson ends in the
\* failure reply because a remote call failed, the balances and the log are
\* as they were before the event.
C18_NoPartialCommit ==
    \A uid \in {T1, U2}, text \in LessonTexts :
        \A f \in 1..Calls(TextEvent(uid, text)) :
            Sent(Run(TextEvent(uid, text), f).out, "fail")
            => /\ Run(TextEvent(uid, text), f).S = ws_students
               /\ Run(TextEvent(uid, text), f).L = ws_log

\* What holds of a failed lesson: the log is as it was, and the balances
\* are as they were unless it is the append to the log that failed
C18_PartialOnlyWhenAppendFails ==
    \A uid \in {T1, U2}, text \in LessonTexts :
        \A f \in 1..Calls(TextEvent(uid, text)) :
            Sent(Run(TextEvent(uid, text), f).out, "fail")
            => /\ Run(TextEvent(uid, text), f).L = ws_log
               /\ Run(TextEvent(uid, text), f).S # ws_students
                  => /\ Run(TextEvent(uid, text), f).trace[f] = "log.append_row"
                     /\ Place(Run(TextEvent(uid, text), f).trace,
                              "students.update_cell", 1) # 0

\* a partial commit: a balance was written, the append failed and was
\* replied as a failure, and the log has no row at all
C18_Partial ==
    /\ Sent(out, "fail")
    /\ Place(trace, "students.update_cell", 1) # 0
    /\ trace[Len(trace)] = "log.append_row"
    /\ Len(ws_log) = 1

-----------------------------------------------------------------------------
(* Deductions in flight *)

\* threads i and j are two deductions for one student, both read the same
\* balance and both ran to their end
BothFrom(i, j) ==
    /\ i # j
    /\ threads[i].name = threads[j].name
    /\ threads[i].pc = "done"
    /\ threads[j].pc = "done"
    /\ threads[i].before = threads[j].before

\* the attended rows of the log for the student named
AttendedRows(name) ==
    {r \in 2..Len(ws_log) : ws_log[r][3] = name /\ ws_log[r][5] = T_attended}

\* the threads of deductions for the student named that are at pc
At(name, pc) ==
    {k \in 1..Len(threads) : threads[k].name = name /\ threads[k].pc = pc}

\* the amounts of the attended rows for the student named, summed from row r
RECURSIVE LoggedSum(_, _)
LoggedSum(name, r) ==
    IF r > Len(ws_log) THEN 0
    ELSE (IF r \in AttendedRows(name) THEN AmountVal(ws_log[r][4]) ELSE 0)
             + LoggedSum(name, r + 1)

\* the balance of the student named before any deduction
InitialBalance(name) == BalanceOf(StudentsSheet(Num(2000)), name)

\* C19: lost update.  Two deductions for one student that both read the
\* same balance both write and both log.  The later write overwrites the
\* earlier: if no further write followed, the balance stored is
\* round(before - amount) of the later.  Every finished deduction has its
\* attended row, and once no deduction is between its write and its row the
\* balance stored is not the initial balance less the amounts logged.
C19_LostUpdate ==
    \A i, j \in 1..Len(threads) :
        (BothFrom(i, j) /\ threads[i].wrote < threads[j].wrote)
        => /\ (\A k \in 1..Len(threads) :
                   threads[k].name = threads[j].name
                   => threads[k].wrote <= threads[j].wrote)
              => BalanceOf(ws_students, threads[j].name)
                     = Round2(threads[j].before - threads[j].used)
           /\ Cardinality(AttendedRows(threads[j].name))
                  = Cardinality(At(threads[j].name, "done"))
           /\ At(threads[j].name, "written") = {}
              => BalanceOf(ws_students, threads[j].name)
                     # InitialBalance(threads[j].name) - LoggedSum(threads[j].name, 2)

\* C19 happens: Amy is at 2.0, lessons of 0.5 and of 1.5 are both read at
\* 2.0; the 0.5 is written last: Amy is at 1.5 with both lessons logged
C19_Witness ==
    /\ Len(threads) = 2
    /\ BothFrom(1, 2)
    /\ threads[1].name = Amy
    /\ threads[1].before = 2000
    /\ threads[1].used = 1500
    /\ threads[2].used = 500
    /\ threads[1].wrote < threads[2].wrote
    /\ BalanceOf(ws_students, Amy) = 1500
    /\ Len(ws_log) = 3

-----------------------------------------------------------------------------
(* Sessions in flight *)

\* the step is the pop of a pending_get
Popped == \E k \in 1..Len(threads) :
              threads[k].pc = "expired" /\ threads'[k].pc = "returned"

\* C20: the session store is safe for concurrent events.  Whatever the
\* interleaving of pending_get and pending_set for one actor, the pop of a
\* pending_get removes no session whose age is 600 s at most: not the one
\* set between its read and its pop.
C20_GetKeepsLiveSessions ==
    [][Popped => \A uid \in DOMAIN PENDING :
                     now - PENDING[uid].ts <= PENDING_TIMEOUT_SEC
                     => uid \in DOMAIN PENDING']_vars

\* What holds of the pop: the session the thread has read is older than
\* 600 s, whatever the session removed is
C20_PopOfExpiredRead ==
    \A k \in 1..Len(threads) :
        threads[k].pc = "expired" => now - threads[k].st.ts > PENDING_TIMEOUT_SEC

\* the pop of a session other than the one read is about to happen: the
\* thread found the session of its read expired and the session stored now
\* was set at this instant
C20_RaceReached ==
    \E k \in 1..Len(threads) :
        /\ threads[k].pc = "expired"
        /\ threads[k].uid \in DOMAIN PENDING
        /\ PENDING[threads[k].uid].ts = now
        /\ PENDING[threads[k].uid] # threads[k].st

-----------------------------------------------------------------------------
(* The weekday of a session *)

\* C21: weekday range.  Every session stored in PENDING has a weekday in
\* 1..7, whatever events came: the day chosen by text or by button and the
\* entry of a search never store a weekday outside 1..7.
C21_WeekdayInRange ==
    \A uid \in DOMAIN PENDING : PENDING[uid].weekday \in 1..7

\* the events that choose a day
DayEvents ==
    {TextEvent(uid, text) :
        uid \in {T1, U2}, text \in {t \in WeekdayTexts : StartsWith(t, T_day)}}
    \cup {PostbackEvent(uid, data) : uid \in {T1, U2}, data \in WeekdayPostbacks}

\* What holds of the weekday: a day chosen by text or by button stores a
\* weekday in 1..7 or leaves the sessions as they were, and a session in
\* the stage "in_day" has a weekday in 1..7
C21_DayChosenInRange ==
    /\ \A e \in DayEvents : \A f \in 0..Calls(e) :
           \/ Run(e, f).P = PENDING
           \/ /\ EventUid(e) \in DOMAIN Run(e, f).P
              /\ Run(e, f).P[EventUid(e)].weekday \in 1..7
              /\ Run(e, f).P[EventUid(e)].stage = "in_day"
    /\ \A uid \in DOMAIN PENDING :
           PENDING[uid].stage = "in_day" => PENDING[uid].weekday \in 1..7

\* a weekday out of range is stored: the search was entered with weekday 9
\* and the prompt was sent for it
C21_OutOfRange ==
    /\ T1 \in DOMAIN PENDING
    /\ PENDING[T1] = Session("searching", 9, now)
    /\ Len(out) = 1
    /\ out[1].kind = "search_prompt"
    /\ out[1].x = 9

=============================================================================
